---------------------------- MODULE Spec2Model ----------------------------
(***************************************************************************)
(* Model of fetch_and_upload.py: the JSON shape normalizers                *)
(* (load_json_file, normalize_json_to_df), the remote reader               *)
(* (fetch_json_from_api), the feature engine (preprocess_df), the          *)
(* publisher (upload_csv_to_sheet) and the run that chains them (main).    *)
(***************************************************************************)
EXTENDS Integers, Sequences, FiniteSets, TLC

(***************************************************************************)
(* Values.  A JSON value or a table cell is a tagged record, so that two   *)
(* values of different Python types are comparable (and different).        *)
(***************************************************************************)
IntV(n) == [t |-> "int", v |-> n]
StrV(s) == [t |-> "str", v |-> s]
BoolV(b) == [t |-> "bool", v |-> b]
\* JSON null, None and the NaN that pandas puts in an absent cell.
Null == [t |-> "null"]
\* A JSON array: v is the sequence of its elements.
ListV(s) == [t |-> "list", v |-> s]
\* A JSON object: v is the sequence of its <<key, value>> pairs, in the
\* iteration order of the Python dict.
DictV(items) == [t |-> "dict", v |-> items]

isinstance(x, type) == x.t = type

(***************************************************************************)
(* Tables.  A DataFrame is its ordered columns and its ordered rows; a row *)
(* is a function from the column names to cells.                           *)
(***************************************************************************)
Range(s) == {s[i] : i \in 1..Len(s)}

\* pd.DataFrame(): no columns, no rows.
EmptyDataFrame == [cols |-> <<>>, rows |-> <<>>]

\* A slip of the test: only the rows are counted.
empty_RowsOnly(df) == Len(df.rows) = 0

\* DataFrame.empty: true when either axis has length 0.
empty(df) == Len(df.cols) = 0 \/ Len(df.rows) = 0

\* The columns of `new` that `cols` lacks, appended in their order.
RECURSIVE AppendNew(_, _)
AppendNew(cols, new) ==
    IF new = <<>> THEN cols
    ELSE AppendNew(IF Head(new) \in Range(cols) THEN cols
                   ELSE Append(cols, Head(new)), Tail(new))

\* A row widened to the columns `cols`: an absent cell is NaN.
Reindex(row, cols) ==
    [c \in Range(cols) |-> IF c \in DOMAIN row THEN row[c] ELSE Null]

\* pd.concat(frames, ignore_index=True, sort=False): the rows of the frames
\* in order, over the union of their columns in order of first appearance.
RECURSIVE ConcatCols(_)
ConcatCols(frames) ==
    IF frames = <<>> THEN <<>>
    ELSE AppendNew(Head(frames).cols, ConcatCols(Tail(frames)))

RECURSIVE ConcatRows(_)
ConcatRows(frames) ==
    IF frames = <<>> THEN <<>>
    ELSE Head(frames).rows \o ConcatRows(Tail(frames))

concat(frames) ==
    LET cols == ConcatCols(frames)
        rows == ConcatRows(frames)
    IN  [cols |-> cols,
         rows |-> [k \in 1..Len(rows) |-> Reindex(rows[k], cols)]]

\* df[col] = value: the column is overwritten in place, or appended last.
SetColumn(df, col, value) ==
    LET cols == IF col \in Range(df.cols) THEN df.cols ELSE Append(df.cols, col)
    IN  [cols |-> cols,
         rows |-> [k \in 1..Len(df.rows) |->
                     [c \in Range(cols) |-> IF c = col THEN value
                                            ELSE df.rows[k][c]]]]

(***************************************************************************)
(* pd.json_normalize.                                                      *)
(***************************************************************************)
IsDictItem(item) == isinstance(item[2], "dict")
NotDictItem(item) == ~isinstance(item[2], "dict")

\* pandas _normalise_json: the items of nested objects under dot-joined keys.
RECURSIVE normalise_json(_, _)
normalise_json(items, prefix) ==
    IF items = <<>> THEN <<>>
    ELSE LET key == prefix \o Head(items)[1]
             val == Head(items)[2]
         IN  (IF isinstance(val, "dict") THEN normalise_json(val.v, key \o ".")
              ELSE << <<key, val>> >>)
             \o normalise_json(Tail(items), prefix)

\* pandas _normalise_json_ordered: the top-level cells first, then the
\* flattened nested objects.
normalise_json_ordered(items) ==
    SelectSeq(items, NotDictItem) \o normalise_json(SelectSeq(items, IsDictItem), "")

\* pandas _simple_json_normalize of one element of the list: an object gives
\* its flattened items, anything else gives the empty record.
simple_json_normalize(elem) ==
    IF isinstance(elem, "dict") THEN normalise_json_ordered(elem.v) ELSE <<>>

ItemKeys(items) == [k \in 1..Len(items) |-> items[k][1]]

\* The row of a sequence of items (a later item of the same key wins).
ItemsRow(items) ==
    [c \in Range(ItemKeys(items)) |->
        LET last == CHOOSE k \in 1..Len(items) :
                        /\ items[k][1] = c
                        /\ \A m \in (k+1)..Len(items) : items[m][1] # c
        IN  items[last][2]]

\* pd.json_normalize(data) for a list `data` (a sequence of JSON values): one
\* row per element, the columns in order of first appearance.
json_normalize(data) ==
    LET recs == [k \in 1..Len(data) |-> simple_json_normalize(data[k])]
    IN  concat([k \in 1..Len(data) |->
                  [cols |-> ItemKeys(recs[k]), rows |-> <<ItemsRow(recs[k])>>]])

(***************************************************************************)
(* The shape normalizers.                                                  *)
(***************************************************************************)
IsListItem(item) == isinstance(item[2], "list")

\* load_json_file: [v for v in data.values() if isinstance(v, list)]
list_candidates(items) ==
    LET lists == SelectSeq(items, IsListItem)
    IN  [k \in 1..Len(lists) |-> lists[k][2]]

\* load_json_file's loop over the candidates: the first one that is
\* non-empty and whose first element is a dict is normalized; when none is,
\* the whole dict is wrapped as a single record.
RECURSIVE FirstCandidate(_, _)
FirstCandidate(candidates, data) ==
    IF candidates = <<>> THEN json_normalize(<<data>>)
    ELSE LET candidate == Head(candidates)
         IN  IF candidate.v # <<>> /\ isinstance(candidate.v[1], "dict")
             THEN json_normalize(candidate.v)
             ELSE FirstCandidate(Tail(candidates), data)

\* A slip of the loop: the first list is taken whatever its first element.
load_json_file_FirstList(data) ==
    IF isinstance(data, "list") THEN json_normalize(data.v)
    ELSE IF isinstance(data, "dict")
         THEN (IF list_candidates(data.v) # <<>>
               THEN json_normalize(list_candidates(data.v)[1].v)
               ELSE json_normalize(<<data>>))
         ELSE EmptyDataFrame

\* load_json_file, from the JSON value the file holds.
load_json_file(data) ==
    IF isinstance(data, "list") THEN json_normalize(data.v)
    ELSE IF isinstance(data, "dict")
         THEN FirstCandidate(list_candidates(data.v), data)
         ELSE EmptyDataFrame

\* normalize_json_to_df: [v for v in jsondata.values() if isinstance(v, list)]
json_list_candidates(items) ==
    LET lists == SelectSeq(items, IsListItem)
    IN  [k \in 1..Len(lists) |-> lists[k][2]]

\* normalize_json_to_df's loop over the candidates.
RECURSIVE FirstJsonCandidate(_, _)
FirstJsonCandidate(candidates, jsondata) ==
    IF candidates = <<>> THEN json_normalize(<<jsondata>>)
    ELSE LET candidate == Head(candidates)
         IN  IF candidate.v # <<>> /\ isinstance(candidate.v[1], "dict")
             THEN json_normalize(candidate.v)
             ELSE FirstJsonCandidate(Tail(candidates), jsondata)

\* normalize_json_to_df, the normalizer nested in fetch_json_from_api.
normalize_json_to_df(jsondata) ==
    IF isinstance(jsondata, "list") THEN json_normalize(jsondata.v)
    ELSE IF isinstance(jsondata, "dict")
         THEN FirstJsonCandidate(json_list_candidates(jsondata.v), jsondata)
         ELSE EmptyDataFrame

(***************************************************************************)
(* Cells of the derived columns.                                           *)
(***************************************************************************)
\* A finite float, the exact quotient n / d with d > 0.
FloatV(n, d) == [t |-> "float", n |-> n, d |-> d]
PosInf == [t |-> "inf"]
NegInf == [t |-> "-inf"]
\* A pandas Timestamp (a calendar date).
DateV(y, m, d) == [t |-> "date", y |-> y, m |-> m, d |-> d]

\* The threshold of the price filter.
PriceCap == 18000000

\* The days from 1970-01-01 to the date (the proleptic Gregorian calendar).
DaysFromCivil(date) ==
    LET y == IF date.m <= 2 THEN date.y - 1 ELSE date.y
        era == y \div 400
        yoe == y - era * 400
        mp == IF date.m > 2 THEN date.m - 3 ELSE date.m + 9
        doy == (153 * mp + 2) \div 5 + date.d - 1
        doe == yoe * 365 + yoe \div 4 - yoe \div 100 + doy
    IN  era * 146097 + doe - 719468

\* Series.dt.day_name(): 1970-01-01 was a Thursday.
day_name(date) ==
    LET names == <<"Monday", "Tuesday", "Wednesday", "Thursday", "Friday",
                   "Saturday", "Sunday">>
    IN  StrV(names[((DaysFromCivil(date) + 3) % 7) + 1])

\* The date a day-first string stands for; an unparseable string is what
\* makes pd.to_datetime raise.
ParseDayFirst(s) ==
    CASE s = "10/01/2024" -> DateV(2024, 1, 10)
      [] s = "15/01/2024" -> DateV(2024, 1, 15)
      [] s = "17/01/2024" -> DateV(2024, 1, 17)
      [] s = "02/03/2024" -> DateV(2024, 3, 2)
      [] s = "16/01/2024" -> DateV(2024, 1, 16)
      [] OTHER -> [t |-> "unparseable"]

\* (a - b).dt.days of two date cells; NaT gives NaN.
DaysBetween(a, b) ==
    IF isinstance(a, "date") /\ isinstance(b, "date")
    THEN IntV(DaysFromCivil(a) - DaysFromCivil(b))
    ELSE Null

\* Series.dt.day, .month, .year of a date cell; NaT gives NaN.
DtDay(a) == IF isinstance(a, "date") THEN IntV(a.d) ELSE Null
DtMonth(a) == IF isinstance(a, "date") THEN IntV(a.m) ELSE Null
DtYear(a) == IF isinstance(a, "date") THEN IntV(a.y) ELSE Null
DtDayName(a) == IF isinstance(a, "date") THEN day_name(a) ELSE Null

\* net_amount_stay / stay_days of one row, as float division does it: a zero
\* divisor gives an infinity of the dividend's sign, 0 / 0 and NaN give NaN.
Divide(amount, days) ==
    IF ~isinstance(amount, "float") \/ ~isinstance(days, "int") THEN Null
    ELSE IF days.v > 0 THEN FloatV(amount.n, amount.d * days.v)
    ELSE IF days.v < 0 THEN FloatV(-amount.n, amount.d * (-days.v))
    ELSE IF amount.n > 0 THEN PosInf
    ELSE IF amount.n < 0 THEN NegInf
    ELSE Null

\* cell == 0 in Python: a number equal to zero, or False.
EqZero(cell) ==
    \/ isinstance(cell, "int") /\ cell.v = 0
    \/ isinstance(cell, "float") /\ cell.n = 0
    \/ isinstance(cell, "bool") /\ cell.v = FALSE

\* cell >= 0 of the lead_days column; NaN compares false.
GeZero(cell) == isinstance(cell, "int") /\ cell.v >= 0

\* cell == 1 of the net_amount_avail column.
EqOne(cell) == isinstance(cell, "int") /\ cell.v = 1

\* cell <= bound of a float column: NaN compares false, -inf true, +inf false.
LeFloat(cell, bound) ==
    \/ isinstance(cell, "-inf")
    \/ /\ isinstance(cell, "float")
       /\ \/ cell.n \div cell.d < bound
          \/ cell.n \div cell.d = bound /\ cell.n % cell.d = 0

(***************************************************************************)
(* preprocess_df.  A step gives [error, df]: error is "none" or the        *)
(* exception the line raises, which ends the function.                     *)
(***************************************************************************)
Ok(df) == [error |-> "none", df |-> df]
Raise(e) == [error |-> e, df |-> EmptyDataFrame]
Then(r, Step(_)) == IF r.error # "none" THEN r ELSE Step(r.df)

\* df[col] = F(row) for every row.
Assign(df, col, F(_)) ==
    LET cols == IF col \in Range(df.cols) THEN df.cols ELSE Append(df.cols, col)
    IN  [cols |-> cols,
         rows |-> [k \in 1..Len(df.rows) |->
                     [c \in Range(cols) |-> IF c = col THEN F(df.rows[k])
                                            ELSE df.rows[k][c]]]]

\* Line 137: main_df['net_amount_stay'] / 100.
ScaleCell(cell) ==
    IF isinstance(cell, "int") THEN FloatV(cell.v, 100) ELSE Null

ScaleAmount(df) ==
    IF "net_amount_stay" \notin Range(df.cols) THEN Raise("KeyError")
    ELSE IF \E k \in 1..Len(df.rows) :
               ~isinstance(df.rows[k]["net_amount_stay"], "int")
               /\ ~isinstance(df.rows[k]["net_amount_stay"], "null")
         THEN Raise("TypeError")
         ELSE LET F(row) == ScaleCell(row["net_amount_stay"])
              IN  Ok(Assign(df, "net_amount_stay", F))

\* A slip of line 138: a table without the column is let through.
DropId_IgnoreMissing(df) ==
    LET NotId(c) == c # "id"
        cols == SelectSeq(df.cols, NotId)
    IN  Ok([cols |-> cols,
            rows |-> [k \in 1..Len(df.rows) |->
                        [c \in Range(cols) |-> df.rows[k][c]]]])

\* Line 138: main_df.drop(columns='id').
DropId(df) ==
    IF "id" \notin Range(df.cols) THEN Raise("KeyError")
    ELSE LET NotId(c) == c # "id"
             cols == SelectSeq(df.cols, NotId)
         IN  Ok([cols |-> cols,
                 rows |-> [k \in 1..Len(df.rows) |->
                             [c \in Range(cols) |-> df.rows[k][c]]]])

\* Lines 140-142: pd.to_datetime(main_df[col], dayfirst=True).
ToDatetimeCell(cell) ==
    IF isinstance(cell, "str") THEN ParseDayFirst(cell.v) ELSE Null

ToDatetime(df, col) ==
    IF col \notin Range(df.cols) THEN Raise("KeyError")
    ELSE IF \E k \in 1..Len(df.rows) :
               \/ ~isinstance(df.rows[k][col], "str")
                  /\ ~isinstance(df.rows[k][col], "null")
               \/ isinstance(df.rows[k][col], "str")
                  /\ isinstance(ParseDayFirst(df.rows[k][col].v), "unparseable")
         THEN Raise("ValueError")
         ELSE LET F(row) == ToDatetimeCell(row[col])
              IN  Ok(Assign(df, col, F))

ParseBookingDate(df) == ToDatetime(df, "booking_date")
ParseCheckIn(df) == ToDatetime(df, "check_in")
ParseCheckOut(df) == ToDatetime(df, "check_out")

\* Lines 144-160: the derived columns, in the order they are assigned.
DeriveColumns(df) ==
    LET lead(row) == DaysBetween(row["check_in"], row["booking_date"])
        bd(row) == DtDay(row["booking_date"])
        bm(row) == DtMonth(row["booking_date"])
        by(row) == DtYear(row["booking_date"])
        cid(row) == DtDay(row["check_in"])
        cim(row) == DtMonth(row["check_in"])
        ciy(row) == DtYear(row["check_in"])
        ciw(row) == DtDayName(row["check_in"])
        cod(row) == DtDay(row["check_out"])
        com(row) == DtMonth(row["check_out"])
        coy(row) == DtYear(row["check_out"])
        stay(row) == DaysBetween(row["check_out"], row["check_in"])
        ppn(row) == Divide(row["net_amount_stay"], row["stay_days"])
        d1 == Assign(df, "lead_days", lead)
        d2 == Assign(d1, "booking_day", bd)
        d3 == Assign(d2, "booking_month", bm)
        d4 == Assign(d3, "booking_year", by)
        d5 == Assign(d4, "check_in_day", cid)
        d6 == Assign(d5, "check_in_month", cim)
        d7 == Assign(d6, "check_in_year", ciy)
        d8 == Assign(d7, "check_in_weekday", ciw)
        d9 == Assign(d8, "check_out_day", cod)
        d10 == Assign(d9, "check_out_month", com)
        d11 == Assign(d10, "check_out_year", coy)
        d12 == Assign(d11, "stay_days", stay)
    IN  Ok(Assign(d12, "price_per_night", ppn))

\* Lines 162-168: the flag is read from the sixth column, main_df.iloc[i, 5].
NetAmountAvail(df) ==
    LET F(row) == IF EqZero(row[df.cols[6]]) THEN IntV(0) ELSE IntV(1)
    IN  Ok(Assign(df, "net_amount_avail", F))

\* Line 169: main_df['is_confirmed'].replace({'t': True, 'f': False}).
\* A slip of the mapping: a token that is neither 't' nor 'f' becomes NaN.
ReplaceCell_DropsOthers(cell) ==
    IF cell = StrV("t") THEN BoolV(TRUE)
    ELSE IF cell = StrV("f") THEN BoolV(FALSE)
    ELSE IF isinstance(cell, "bool") THEN cell
    ELSE Null

ReplaceCell(cell) ==
    IF cell = StrV("t") THEN BoolV(TRUE)
    ELSE IF cell = StrV("f") THEN BoolV(FALSE)
    ELSE cell

NormalizeConfirmed(df) ==
    IF "is_confirmed" \notin Range(df.cols) THEN Raise("KeyError")
    ELSE LET F(row) == ReplaceCell(row["is_confirmed"])
         IN  Ok(Assign(df, "is_confirmed", F))

\* A slip of the mask: a booking made on the day of check-in is dropped.
Keep_StrictLead(row) ==
    /\ isinstance(row["lead_days"], "int") /\ row["lead_days"].v > 0
    /\ EqOne(row["net_amount_avail"])
    /\ LeFloat(row["price_per_night"], PriceCap)

\* Lines 170-172: the mask of the filter, for one row.
Keep(row) ==
    /\ GeZero(row["lead_days"])
    /\ EqOne(row["net_amount_avail"])
    /\ LeFloat(row["price_per_night"], PriceCap)

FilterRows(df) == Ok([cols |-> df.cols, rows |-> SelectSeq(df.rows, Keep)])

\* Lines 137-169: everything before the filter.
Enrich(main_df) ==
    Then(Then(Then(Then(Then(Then(Then(
        ScaleAmount(main_df),
        DropId), ParseBookingDate), ParseCheckIn), ParseCheckOut),
        DeriveColumns), NetAmountAvail), NormalizeConfirmed)

\* preprocess_df(main_df): [error, df].
preprocess_df(main_df) == Then(Enrich(main_df), FilterRows)

(***************************************************************************)
(* State.                                                                  *)
(***************************************************************************)
VARIABLES
    arg,        \* the argument of the function applied on its own
    ret,        \* what it returned
    call,       \* the function applied: "none" before the call
    pc,         \* the position of main
    urls,       \* API_URLS, split: the list is empty in local-glob mode
    files,      \* find_json_files(JSON_GLOB)
    i,          \* the index in urls or files of the source being read
    data,       \* fetch_json_from_api: the response of the URL
    entry,      \* fetch_json_from_api: the listing entry being read
    jsondata,   \* the JSON value read from the current source
    collected,  \* fetch_json_from_api: the fragments of the URL so far
    dfs,        \* main: the fragments of the run so far
    df,         \* main: the combined, then the transformed table
    csv,        \* the file at OUTPUT_NAME: "old" is the file an earlier run left
    sheet,      \* the worksheet of the spreadsheet
    exit,       \* the exit status of the process: -1 while it runs
    failure,    \* what ended the run
    reads,      \* the number of payloads read so far in the run
    lacking,    \* the column the exports of the run's sources lack
    okFrames    \* the tagged fragment of every source read without an error

vars == <<arg, ret, call, pc, urls, files, i, data, entry, jsondata,
          collected, dfs, df, csv, sheet, exit, failure, reads, lacking, okFrames>>

pureVars == <<arg, ret, call>>
runVars == <<pc, urls, files, i, data, entry, jsondata, collected, dfs, df,
             csv, sheet, exit, failure, reads, lacking, okFrames>>

\* No run in progress: the state of the run's variables while a function is
\* applied on its own.
NoRun ==
    /\ pc = "idle" /\ urls = <<>> /\ files = <<>> /\ i = 0
    /\ data = Null /\ entry = Null /\ jsondata = Null
    /\ collected = <<>> /\ dfs = <<>> /\ df = EmptyDataFrame
    /\ csv = [state |-> "absent"] /\ sheet = [state |-> "old"]
    /\ exit = -1 /\ failure = "none" /\ reads = 0 /\ lacking = "id"
    /\ okFrames = <<>>

\* All the sequences over S of a length from lo to hi.
SeqsOf(S, lo, hi) == UNION {[1..n -> S] : n \in lo..hi}

(***************************************************************************)
(* The normalizers applied to one JSON value.                              *)
(***************************************************************************)
MaxKeys == 3

RecA == DictV(<< <<"a", IntV(1)>> >>)
RecB == DictV(<< <<"b", IntV(2)>>, <<"a", IntV(3)>> >>)
RecNested == DictV(<< <<"n", DictV(<< <<"m", IntV(4)>> >>)>>, <<"a", IntV(5)>> >>)

\* The values of a JSON object's keys.
JsonMemberValues ==
    {IntV(1), StrV("s"), Null, ListV(<<>>), ListV(<<IntV(1)>>),
     ListV(<<RecA>>), ListV(<<RecB, RecA>>), DictV(<< <<"m", IntV(4)>> >>)}

KeyNames == <<"x", "items", "data", "more">>

JsonObjects ==
    {DictV([k \in 1..Len(vals) |-> <<KeyNames[k], vals[k]>>]) :
        vals \in SeqsOf(JsonMemberValues, 0, MaxKeys)}

JsonRecordLists == {ListV(recs) : recs \in SeqsOf({RecA, RecB, RecNested}, 0, MaxKeys)}

JsonScalars == {IntV(42), StrV("text"), BoolV(TRUE), Null}

JsonInputs == JsonObjects \cup JsonRecordLists \cup JsonScalars

InitNormalize ==
    /\ arg \in JsonInputs
    /\ ret = Null
    /\ call = "none"
    /\ NoRun

\* load_json_file on the value json.load returned.
CallLoadJsonFile ==
    /\ call = "none" /\ pc = "idle"
    /\ ret' = load_json_file(arg)
    /\ call' = "load_json_file"
    /\ UNCHANGED <<arg, runVars>>

\* normalize_json_to_df on a remote payload.
CallNormalizeJsonToDf ==
    /\ call = "none" /\ pc = "idle"
    /\ ret' = normalize_json_to_df(arg)
    /\ call' = "normalize_json_to_df"
    /\ UNCHANGED <<arg, runVars>>

NextNormalize == CallLoadJsonFile \/ CallNormalizeJsonToDf

SpecNormalize == InitNormalize /\ [][NextNormalize]_vars

(***************************************************************************)
(* preprocess_df applied to one combined table.                            *)
(***************************************************************************)
MaxRows == 2

\* The booking_date, check_in and check_out cells of a row.
Stays ==
    {<<StrV("10/01/2024"), StrV("15/01/2024"), StrV("17/01/2024")>>,
     <<StrV("15/01/2024"), StrV("15/01/2024"), StrV("16/01/2024")>>,
     <<StrV("16/01/2024"), StrV("15/01/2024"), StrV("17/01/2024")>>,
     <<StrV("10/01/2024"), StrV("15/01/2024"), StrV("15/01/2024")>>,
     <<StrV("10/01/2024"), StrV("17/01/2024"), StrV("15/01/2024")>>,
     <<Null, StrV("15/01/2024"), StrV("02/03/2024")>>,
     <<StrV("10/01/2024"), StrV("15/01/2024"), Null>>}

\* The net_amount_stay cells, in minor currency units.
NetAmounts ==
    {IntV(-100), IntV(0), IntV(150000), IntV(1800000000), IntV(1800000100)}

\* The is_confirmed cells.
ConfirmedTokens ==
    {StrV("t"), StrV("f"), BoolV(TRUE), BoolV(FALSE), StrV("true"), IntV(1), Null}

BookingRow(stay, amount, confirmed) ==
    [id |-> IntV(7), booking_date |-> stay[1], check_in |-> stay[2],
     check_out |-> stay[3], net_amount_stay |-> amount,
     is_confirmed |-> confirmed, hotel |-> StrV("h"),
     _source_api |-> StrV("u1")]

BookingRows ==
    {BookingRow(stay, IntV(150000), StrV("t")) : stay \in Stays}
    \cup {BookingRow(stay, amount, StrV("t")) :
            stay \in {<<StrV("10/01/2024"), StrV("15/01/2024"), StrV("17/01/2024")>>,
                      <<StrV("10/01/2024"), StrV("15/01/2024"), StrV("15/01/2024")>>},
            amount \in {IntV(-100), IntV(0)}}
    \cup {BookingRow(<<StrV("15/01/2024"), StrV("15/01/2024"), StrV("16/01/2024")>>,
                     amount, StrV("t")) : amount \in NetAmounts}
    \cup {BookingRow(<<StrV("10/01/2024"), StrV("15/01/2024"), StrV("17/01/2024")>>,
                     IntV(150000), confirmed) : confirmed \in ConfirmedTokens}
    \cup {BookingRow(<<StrV("10/01/2024"), StrV("not a date"), StrV("17/01/2024")>>,
                     IntV(150000), StrV("t"))}

\* The column orders of the combined table.
Layouts ==
    {<<"id", "booking_date", "check_in", "check_out", "is_confirmed", "hotel",
       "net_amount_stay", "_source_api">>,
     <<"id", "net_amount_stay", "booking_date", "check_in", "check_out",
       "is_confirmed", "_source_api">>,
     <<"net_amount_stay", "booking_date", "check_in", "check_out", "id",
       "hotel", "is_confirmed">>,
     <<"booking_date", "check_in", "id", "check_out", "is_confirmed",
       "net_amount_stay">>}

Table(cols, rows) ==
    [cols |-> cols,
     rows |-> [k \in 1..Len(rows) |-> [c \in Range(cols) |-> rows[k][c]]]]

InputTables ==
    {Table(cols, rows) : cols \in Layouts, rows \in SeqsOf(BookingRows, 1, MaxRows)}

InitTransform ==
    /\ arg \in InputTables
    /\ ret = Null
    /\ call = "none"
    /\ NoRun

CallPreprocessDf ==
    /\ call = "none" /\ pc = "idle"
    /\ ret' = preprocess_df(arg)
    /\ call' = "preprocess_df"
    /\ UNCHANGED <<arg, runVars>>

NextTransform == CallPreprocessDf

SpecTransform == InitTransform /\ [][NextTransform]_vars

(***************************************************************************)
(* The run: main, fetch_json_from_api, upload_csv_to_sheet.                *)
(***************************************************************************)
\* The sources of a run: the URLs of API_URLS, or the files of the glob.
MaxUrls == 2
\* The payloads read in a run, over all its sources.
MaxReads == 2

UrlNames == <<"u1", "u2", "u3", "u4">>
FileNames == <<"data/a.json", "data/b.json", "data/c.json", "data/d.json">>

Required ==
    {"net_amount_stay", "id", "booking_date", "check_in", "check_out",
     "is_confirmed"}

\* dict.get(key, default) of a JSON object.
get(dict, key, default) ==
    IF \E k \in 1..Len(dict.v) : dict.v[k][1] = key
    THEN dict.v[CHOOSE k \in 1..Len(dict.v) : dict.v[k][1] = key][2]
    ELSE default

\* str.lower() of the names of the model.
lower(name) ==
    CASE name = "B.JSON" -> "b.json"
      [] OTHER -> name

\* name.endswith(".json") of the names of the model.
EndsWithJson(name) == name \in {"a.json", "b.json"}

\* os.path.basename of the paths of the model.
basename(path) ==
    CASE path = "data/a.json" -> "a.json"
      [] path = "data/b.json" -> "b.json"
      [] path = "data/c.json" -> "c.json"
      [] path = "data/d.json" -> "d.json"
      [] OTHER -> path

\* A truthy value of `if dl:`.
Truthy(value) == value.t = "str" /\ value.v # ""

\* A booking record of a payload, as a JSON object.
GoodBooking ==
    << <<"id", IntV(1)>>, <<"booking_date", StrV("10/01/2024")>>,
       <<"check_in", StrV("15/01/2024")>>, <<"check_out", StrV("17/01/2024")>>,
       <<"is_confirmed", StrV("t")>>, <<"hotel", StrV("h")>>,
       <<"net_amount_stay", IntV(150000)>> >>

LateBooking ==
    << <<"id", IntV(2)>>, <<"booking_date", StrV("16/01/2024")>>,
       <<"check_in", StrV("15/01/2024")>>, <<"check_out", StrV("17/01/2024")>>,
       <<"is_confirmed", StrV("f")>>, <<"hotel", StrV("h")>>,
       <<"net_amount_stay", IntV(150000)>> >>

\* The record without the key `col`.
Without(items, col) ==
    LET Other(item) == item[1] # col
    IN  SelectSeq(items, Other)

\* The JSON values a source of the run may hold: a scalar, the empty
\* object, a list of bookings, and an envelope of an export that lacks the
\* column `col`.
Payloads(col) ==
    {IntV(42), DictV(<<>>),
     ListV(<<DictV(GoodBooking), DictV(LateBooking)>>),
     DictV(<< <<"x", IntV(1)>>,
              <<"items", ListV(<<DictV(Without(GoodBooking, col))>>)>> >>)}

RunPayloads == Payloads(lacking)

\* The entries of a repository listing.
DirEntry ==
    DictV(<< <<"type", StrV("dir")>>, <<"name", StrV("sub")>>,
             <<"path", StrV("sub")>> >>)
TextEntry ==
    DictV(<< <<"type", StrV("file")>>, <<"name", StrV("README.md")>>,
             <<"path", StrV("README.md")>>, <<"download_url", StrV("dl/README.md")>> >>)
JsonEntry ==
    DictV(<< <<"type", StrV("file")>>, <<"name", StrV("a.json")>>,
             <<"path", StrV("data/a.json")>>, <<"download_url", StrV("dl/a.json")>>,
             <<"url", StrV("api/a.json")>> >>)
JsonEntryNoDownload ==
    DictV(<< <<"type", StrV("file")>>, <<"name", StrV("B.JSON")>>,
             <<"download_url", Null>>, <<"url", StrV("api/B.JSON")>> >>)

ListingEntries == {DirEntry, TextEntry, JsonEntry, JsonEntryNoDownload}

\* A listing: its entries are drawn as the loop reaches them.
Listing == [t |-> "list"]

\* What r.json() of a URL may be: a listing, the entry of one file, or a
\* document that is itself the payload.
UrlResponses ==
    {Listing, JsonEntry, JsonEntryNoDownload}
    \cup {p \in RunPayloads : ~isinstance(p, "list")}

Prefix(names, n) == SubSeq(names, 1, n)

Init ==
    /\ arg = Null /\ ret = Null /\ call = "none"
    /\ pc = "main"
    /\ urls \in {Prefix(UrlNames, n) : n \in 0..MaxUrls}
    /\ files \in IF urls = <<>> THEN {Prefix(FileNames, n) : n \in 0..MaxUrls}
                 ELSE {<<>>}
    /\ i = 1
    /\ data = Null /\ entry = Null /\ jsondata = Null
    /\ collected = <<>> /\ dfs = <<>> /\ df = EmptyDataFrame
    /\ csv = [state |-> "old"]
    /\ sheet = [state |-> "old"]
    /\ exit = -1 /\ failure = "none" /\ reads = 0 /\ okFrames = <<>>
    /\ lacking \in Required

\* sys.exit(code), or an exception nobody catches (status 1).
Exit(code, why) ==
    /\ pc' = "exited"
    /\ exit' = code
    /\ failure' = why

\* df["_source_file"] = tag (lines 107, 124, 311).
TagFile(frame, tag) == SetColumn(frame, "_source_file", tag)

\* A slip of line 296: the URL is not recorded.
TagApi_Skipped(frame, url) == frame

\* dfi["_source_api"] = url (line 296).
TagApi(frame, url) == SetColumn(frame, "_source_api", StrV(url))

\* The position after source i: the next source, or the aggregation.
AfterSource(sources, next) ==
    /\ i' = i + 1
    /\ pc' = IF i + 1 > Len(sources) THEN "combine" ELSE next
    /\ data' = Null /\ entry' = Null /\ jsondata' = Null /\ collected' = <<>>

\* Lines 288-291, 300-305: the mode of the run.
Main ==
    /\ pc = "main"
    /\ IF urls # <<>>
       THEN pc' = "fetch_url" /\ UNCHANGED <<exit, failure>>
       ELSE IF files = <<>>
            THEN Exit(1, "NoFiles")
            ELSE pc' = "load_file" /\ UNCHANGED <<exit, failure>>
    /\ UNCHANGED <<pureVars, urls, files, i, data, entry, jsondata, collected,
                   dfs, df, csv, sheet, reads, lacking, okFrames>>

\* Lines 292-294, 54-57: the request of a URL; an error is caught by main
\* (lines 298-299).
FetchUrl ==
    /\ pc = "fetch_url"
    /\ \/ /\ AfterSource(urls, "fetch_url")
          /\ UNCHANGED reads
       \/ /\ \E response \in UrlResponses \ RunPayloads : data' = response
          /\ pc' = "dispatch"
          /\ UNCHANGED <<i, entry, jsondata, collected, reads>>
       \/ /\ reads < MaxReads
          /\ reads' = reads + 1
          /\ \E response \in UrlResponses \cap RunPayloads : data' = response
          /\ pc' = "dispatch"
          /\ UNCHANGED <<i, entry, jsondata, collected>>
    /\ UNCHANGED <<pureVars, urls, files, dfs, df, csv, sheet, exit, failure,
                   lacking, okFrames>>

\* Lines 76, 111-115, 126: the shape of the response.
Dispatch ==
    /\ pc = "dispatch"
    /\ pc' = IF isinstance(data, "list") THEN "entries"
             ELSE IF isinstance(data, "dict")
             THEN IF /\ get(data, "type", Null) = StrV("file")
                     /\ EndsWithJson(lower(get(data, "name", StrV("")).v))
                  THEN IF Truthy(get(data, "download_url", Null))
                       THEN "get_file" ELSE "return"
                  ELSE "normalize_raw"
             ELSE "return"
    /\ UNCHANGED <<pureVars, urls, files, i, data, entry, jsondata, collected,
                   dfs, df, csv, sheet, exit, failure, reads, lacking, okFrames>>

\* Lines 77-85: the next entry of the listing, or its end.  An entry that is
\* not a .json file is passed over (`entry` is not read again, and is left
\* as it was).
NextEntry ==
    /\ pc = "entries"
    /\ \/ /\ pc' = "return"
          /\ UNCHANGED entry
       \/ /\ \E e \in ListingEntries :
                /\ \/ get(e, "type", Null) # StrV("file")
                   \/ ~EndsWithJson(lower(get(e, "name", StrV("")).v))
                /\ pc' = "entries"
                /\ UNCHANGED entry
       \/ /\ \E e \in ListingEntries :
                /\ get(e, "type", Null) = StrV("file")
                /\ EndsWithJson(lower(get(e, "name", StrV("")).v))
                /\ entry' = e
                /\ pc' = "get_entry"
    /\ UNCHANGED <<pureVars, urls, files, i, data, jsondata, collected, dfs, df,
                   csv, sheet, exit, failure, reads, lacking, okFrames>>

\* Lines 84-103: the download of the entry, from download_url or from url; an
\* error leaves fetch_json_from_api and is caught by main (lines 298-299).
GetEntry ==
    /\ pc = "get_entry"
    /\ \/ /\ AfterSource(urls, "fetch_url")
          /\ UNCHANGED reads
       \/ /\ reads < MaxReads
          /\ reads' = reads + 1
          /\ \E payload \in RunPayloads : jsondata' = payload
          /\ pc' = "normalize_entry"
          /\ UNCHANGED <<i, data, entry, collected>>
    /\ UNCHANGED <<pureVars, urls, files, dfs, df, csv, sheet, exit, failure,
                   lacking, okFrames>>

\* Lines 105-108: the fragment of the entry (`entry` is not read again
\* before the loop assigns it).
NormalizeEntry ==
    /\ pc = "normalize_entry"
    /\ LET frame == normalize_json_to_df(jsondata)
           tagged == TagFile(frame, get(entry, "path", get(entry, "name", StrV(""))))
       IN  IF ~empty(frame)
           THEN /\ collected' = Append(collected, tagged)
                /\ okFrames' = Append(okFrames, TagApi(tagged, urls[i]))
           ELSE UNCHANGED <<collected, okFrames>>
    /\ pc' = "entries"
    /\ entry' = Null
    /\ UNCHANGED <<pureVars, urls, files, i, data, jsondata, dfs, df,
                   csv, sheet, exit, failure, reads, lacking>>

\* Lines 116-121: the download of the single file the URL describes.
GetFile ==
    /\ pc = "get_file"
    /\ \/ /\ AfterSource(urls, "fetch_url")
          /\ UNCHANGED reads
       \/ /\ reads < MaxReads
          /\ reads' = reads + 1
          /\ \E payload \in RunPayloads : jsondata' = payload
          /\ pc' = "normalize_file"
          /\ UNCHANGED <<i, data, entry, collected>>
    /\ UNCHANGED <<pureVars, urls, files, dfs, df, csv, sheet, exit, failure,
                   lacking, okFrames>>

\* Lines 122-125: the fragment of the single file.
NormalizeFile ==
    /\ pc = "normalize_file"
    /\ LET frame == normalize_json_to_df(jsondata)
           tagged == TagFile(frame, get(data, "path", get(data, "name", Null)))
       IN  IF ~empty(frame)
           THEN /\ collected' = Append(collected, tagged)
                /\ okFrames' = Append(okFrames, TagApi(tagged, urls[i]))
           ELSE UNCHANGED <<collected, okFrames>>
    /\ pc' = "return"
    /\ UNCHANGED <<pureVars, urls, files, i, data, entry, jsondata, dfs, df,
                   csv, sheet, exit, failure, reads, lacking>>

\* Lines 127-130: the response is the payload.
NormalizeRaw ==
    /\ pc = "normalize_raw"
    /\ LET frame == normalize_json_to_df(data)
       IN  IF ~empty(frame)
           THEN /\ collected' = Append(collected, frame)
                /\ okFrames' = Append(okFrames, TagApi(frame, urls[i]))
           ELSE UNCHANGED <<collected, okFrames>>
    /\ pc' = "return"
    /\ UNCHANGED <<pureVars, urls, files, i, data, entry, jsondata, dfs, df,
                   csv, sheet, exit, failure, reads, lacking>>

\* Lines 132-134, 295-297: what fetch_json_from_api returns, and its place
\* in the run.
Return ==
    /\ pc = "return"
    /\ LET dfi == IF collected = <<>> THEN EmptyDataFrame ELSE concat(collected)
       IN  dfs' = IF ~empty(dfi) THEN Append(dfs, TagApi(dfi, urls[i])) ELSE dfs
    /\ AfterSource(urls, "fetch_url")
    /\ UNCHANGED <<pureVars, urls, files, df, csv, sheet, exit, failure,
                   reads, lacking, okFrames>>

\* Lines 306-309, 34-35: a file is opened and parsed; an error is caught by
\* main (lines 313-314).
LoadFile ==
    /\ pc = "load_file"
    /\ \/ /\ AfterSource(files, "load_file")
          /\ UNCHANGED reads
       \/ /\ reads < MaxReads
          /\ reads' = reads + 1
          /\ \E payload \in RunPayloads : jsondata' = payload
          /\ pc' = "normalize_local"
          /\ UNCHANGED <<i, data, entry, collected>>
    /\ UNCHANGED <<pureVars, urls, files, dfs, df, csv, sheet, exit, failure,
                   lacking, okFrames>>

\* Lines 36-45, 310-312: the fragment of the file.
NormalizeLocal ==
    /\ pc = "normalize_local"
    /\ LET dfi == load_json_file(jsondata)
           tagged == TagFile(dfi, StrV(basename(files[i])))
       IN  IF ~empty(dfi)
           THEN /\ dfs' = Append(dfs, tagged)
                /\ okFrames' = Append(okFrames, tagged)
           ELSE UNCHANGED <<dfs, okFrames>>
    /\ AfterSource(files, "load_file")
    /\ UNCHANGED <<pureVars, urls, files, df, csv, sheet, exit, failure,
                   reads, lacking>>

\* Lines 316-321: the aggregation.
Combine ==
    /\ pc = "combine"
    /\ IF dfs = <<>>
       THEN Exit(1, "NoData") /\ UNCHANGED df
       ELSE /\ df' = concat(dfs)
            /\ pc' = "preprocess"
            /\ UNCHANGED <<exit, failure>>
    /\ UNCHANGED <<pureVars, urls, files, i, data, entry, jsondata, collected,
                   dfs, csv, sheet, reads, lacking, okFrames>>

\* Lines 322-323: the transformation; its exception ends the run.
Preprocess ==
    /\ pc = "preprocess"
    /\ LET result == preprocess_df(df)
       IN  IF result.error # "none"
           THEN Exit(1, result.error) /\ UNCHANGED df
           ELSE /\ df' = result.df
                /\ pc' = "to_csv"
                /\ UNCHANGED <<exit, failure>>
    /\ UNCHANGED <<pureVars, urls, files, i, data, entry, jsondata, collected,
                   dfs, csv, sheet, reads, lacking, okFrames>>

\* A slip of line 325: the rows are not written.
to_csv_HeaderOnly(table) ==
    [state |-> "written", header |-> table.cols, lines |-> <<>>]

\* df.to_csv(out_path, index=False): the file holds the header and one line
\* per row.
to_csv(table) ==
    [state |-> "written", header |-> table.cols, lines |-> table.rows]

\* pd.read_csv(local_csv_path), as the list update() is given.
read_csv(file) == <<file.header>> \o file.lines

\* Lines 324-326: the CSV is written.
ToCsv ==
    /\ pc = "to_csv"
    /\ csv' = to_csv(df)
    /\ pc' = "check_sa"
    /\ UNCHANGED <<pureVars, urls, files, i, data, entry, jsondata, collected,
                   dfs, df, sheet, exit, failure, reads, lacking, okFrames>>

\* Lines 328-330: the credentials file.
CheckSa ==
    /\ pc = "check_sa"
    /\ \/ pc' = "credentials" /\ UNCHANGED <<exit, failure>>
       \/ Exit(1, "NoCredentials")
    /\ UNCHANGED <<pureVars, urls, files, i, data, entry, jsondata, collected,
                   dfs, df, csv, sheet, reads, lacking, okFrames>>

\* Lines 180-181: the credentials are loaded and the client authorized.
Credentials ==
    /\ pc = "credentials"
    /\ \/ pc' = "open_sheet" /\ UNCHANGED <<exit, failure>>
       \/ Exit(1, "PublishFailure")
    /\ UNCHANGED <<pureVars, urls, files, i, data, entry, jsondata, collected,
                   dfs, df, csv, sheet, reads, lacking, okFrames>>

\* Line 184: the spreadsheet is opened.
OpenSheet ==
    /\ pc = "open_sheet"
    /\ \/ pc' = "worksheet" /\ UNCHANGED <<exit, failure>>
       \/ Exit(1, "PublishFailure")
    /\ UNCHANGED <<pureVars, urls, files, i, data, entry, jsondata, collected,
                   dfs, df, csv, sheet, reads, lacking, okFrames>>

\* Lines 185-189: the worksheet is found, or created when it is not.
Worksheet ==
    /\ pc = "worksheet"
    /\ \/ pc' = "clear" /\ UNCHANGED <<sheet, exit, failure>>
       \/ /\ sheet' = [state |-> "created"]
          /\ pc' = "clear"
          /\ UNCHANGED <<exit, failure>>
       \/ Exit(1, "PublishFailure") /\ UNCHANGED sheet
    /\ UNCHANGED <<pureVars, urls, files, i, data, entry, jsondata, collected,
                   dfs, df, csv, reads, lacking, okFrames>>

\* Lines 191-193: the CSV is read back and the worksheet cleared.
Clear ==
    /\ pc = "clear"
    /\ \/ /\ sheet' = [state |-> "cleared"]
          /\ pc' = "update"
          /\ UNCHANGED <<exit, failure>>
       \/ Exit(1, "PublishFailure") /\ UNCHANGED sheet
    /\ UNCHANGED <<pureVars, urls, files, i, data, entry, jsondata, collected,
                   dfs, df, csv, reads, lacking, okFrames>>

\* Lines 194-198, 333: the worksheet is filled and the run ends.
Update ==
    /\ pc = "update"
    /\ \/ /\ sheet' = [state |-> "updated", values |-> read_csv(csv)]
          /\ Exit(0, "none")
       \/ Exit(1, "PublishFailure") /\ UNCHANGED sheet
    /\ UNCHANGED <<pureVars, urls, files, i, data, entry, jsondata, collected,
                   dfs, df, csv, reads, lacking, okFrames>>

Next ==
    \/ Main
    \/ FetchUrl \/ Dispatch \/ NextEntry \/ GetEntry \/ NormalizeEntry
    \/ GetFile \/ NormalizeFile \/ NormalizeRaw \/ Return
    \/ LoadFile \/ NormalizeLocal
    \/ Combine \/ Preprocess \/ ToCsv
    \/ CheckSa \/ Credentials \/ OpenSheet \/ Worksheet \/ Clear \/ Update

Spec == Init /\ [][Next]_vars

(***************************************************************************)
(* Properties of the normalizers (SpecNormalize).                          *)
(***************************************************************************)
\* A value that is a non-empty list whose first element is a mapping.
Qualifies(value) ==
    /\ value.t = "list"
    /\ Len(value.v) > 0
    /\ value.v[1].t = "dict"

\* The fragment the claim describes for a JSON value.
ExpectedFragment(raw) ==
    IF raw.t = "list" THEN json_normalize(raw.v)
    ELSE IF raw.t = "dict"
    THEN IF \E k \in 1..Len(raw.v) : Qualifies(raw.v[k][2])
         THEN LET first == CHOOSE k \in 1..Len(raw.v) :
                              /\ Qualifies(raw.v[k][2])
                              /\ \A m \in 1..(k-1) : ~Qualifies(raw.v[m][2])
              IN  json_normalize(raw.v[first][2].v)
         ELSE [cols |-> ItemKeys(normalise_json_ordered(raw.v)),
               rows |-> <<ItemsRow(normalise_json_ordered(raw.v))>>]
    ELSE EmptyDataFrame

\* C4: for a JSON mapping both normalizers return the records of the first
\* value, in iteration order, that is a non-empty list whose first element
\* is a mapping (scalars, empty lists, lists of non-mappings and later
\* qualifying lists are passed over), or the single record made of the whole
\* mapping when no value qualifies; for a JSON list of N records they return
\* N records in list order.
C4_FirstQualifyingList ==
    call \in {"load_json_file", "normalize_json_to_df"} =>
        /\ ret = ExpectedFragment(arg)
        /\ arg.t = "list" =>
              /\ Len(ret.rows) = Len(arg.v)
              /\ \A k \in 1..Len(arg.v) :
                    \A item \in Range(normalise_json_ordered(arg.v[k].v)) :
                        ret.rows[k][item[1]] = item[2]

\* C4's case: a mapping whose first list does not qualify and whose later
\* list does, normalized by the remote normalizer.
C4_Witness ==
    /\ call = "normalize_json_to_df"
    /\ arg = DictV(<< <<"x", ListV(<<IntV(1)>>)>>, <<"items", ListV(<<RecB, RecA>>)>>,
                      <<"data", ListV(<<RecA>>)>> >>)
    /\ Len(ret.rows) = 2

(***************************************************************************)
(* Properties of preprocess_df (SpecTransform).                            *)
(***************************************************************************)
\* price_per_night <= 18,000,000, for a cell of that column.
WithinPriceCap(cell) ==
    \/ cell.t = "-inf"
    \/ /\ cell.t = "float"
       /\ \/ cell.n \div cell.d < 18000000
          \/ cell.n \div cell.d = 18000000 /\ cell.n % cell.d = 0

\* The three conditions of the claim on a row of the enriched table.
SatisfiesFilter(row) ==
    /\ row["lead_days"].t = "int" /\ row["lead_days"].v >= 0
    /\ row["net_amount_avail"] = IntV(1)
    /\ WithinPriceCap(row["price_per_night"])

\* The columns preprocess_df does not assign.
Untouched(cols) ==
    Range(cols) \ {"id", "net_amount_stay", "booking_date", "check_in",
                   "check_out", "is_confirmed"}

\* C1: the rows preprocess_df returns are exactly the input rows, in their
\* order, with lead_days >= 0, net_amount_avail == 1 and price_per_night <=
\* 18,000,000: every returned row satisfies the three, none that satisfies
\* them is dropped, and no value is changed by the filter.
C1_FilterExact ==
    (call = "preprocess_df" /\ ret.error = "none") =>
        LET pre == Enrich(arg).df
        IN  /\ Len(pre.rows) = Len(arg.rows)
            /\ \A k \in 1..Len(arg.rows) : \A c \in Untouched(arg.cols) :
                  pre.rows[k][c] = arg.rows[k][c]
            /\ ret.df.cols = pre.cols
            /\ ret.df.rows = SelectSeq(pre.rows, SatisfiesFilter)
            /\ \A k \in 1..Len(ret.df.rows) : SatisfiesFilter(ret.df.rows[k])

\* C1's case: of two rows that differ in the booking date, the one with
\* lead_days = -1 is removed and the one with lead_days = 0 is kept.
C1_Witness ==
    /\ call = "preprocess_df" /\ ret.error = "none"
    /\ Len(arg.rows) = 2 /\ Len(ret.df.rows) = 1
    /\ arg.rows[1]["booking_date"] = StrV("16/01/2024")
    /\ arg.rows[2]["booking_date"] = StrV("15/01/2024")
    /\ arg.rows[1]["check_in"] = StrV("15/01/2024")
    /\ ret.df.rows[1]["lead_days"] = IntV(0)

\* C2: net_amount_avail of a row is 0 exactly when its net_amount_stay is 0,
\* whatever the columns of the table and their order, so that a row with
\* net_amount_stay = 0 is never in the output.
C2_FlagFollowsAmount ==
    (call = "preprocess_df" /\ ret.error = "none") =>
        /\ \A k \in 1..Len(arg.rows) :
              Enrich(arg).df.rows[k]["net_amount_avail"] =
                  IF arg.rows[k]["net_amount_stay"] = IntV(0) THEN IntV(0)
                  ELSE IntV(1)
        /\ \A k \in 1..Len(ret.df.rows) :
              ret.df.rows[k]["net_amount_stay"] # FloatV(0, 100)

\* The is_confirmed tokens the mapping knows.
KnownToken(cell) == cell \in {StrV("t"), StrV("f"), BoolV(TRUE), BoolV(FALSE)}

ExpectedConfirmed(cell) ==
    CASE cell = StrV("t") -> BoolV(TRUE)
      [] cell = StrV("f") -> BoolV(FALSE)
      [] OTHER -> cell

C10_ZeroStayRemoved ==
    (call = "preprocess_df" /\ ret.error = "none") =>
        \A k \in 1..Len(ret.df.rows) : ret.df.rows[k]["stay_days"] # IntV(0)

(***************************************************************************)
(* Properties of the run (Spec).                                           *)
(***************************************************************************)
\* A JSON scalar, or the empty mapping.
Shapeless(value) ==
    \/ value.t \in {"int", "str", "bool", "null"}
    \/ value = DictV(<<>>)

\* C5: a payload that is a scalar or {} is normalized to an empty fragment
\* without an error, and the step that handles it adds nothing to the
\* fragments of the URL or of the run and does not end the run.
C5_ShapelessPayloadSkipped ==
    [][/\ (pc = "normalize_entry" /\ Shapeless(jsondata)) =>
              /\ empty(normalize_json_to_df(jsondata))
              /\ collected' = collected /\ dfs' = dfs /\ okFrames' = okFrames
              /\ pc' = "entries" /\ exit' = -1
       /\ (pc = "normalize_file" /\ Shapeless(jsondata)) =>
              /\ empty(normalize_json_to_df(jsondata))
              /\ collected' = collected /\ dfs' = dfs /\ okFrames' = okFrames
              /\ pc' = "return" /\ exit' = -1
       /\ (pc \in {"dispatch", "normalize_raw"} /\ Shapeless(data)) =>
              /\ empty(normalize_json_to_df(data))
              /\ collected' = collected /\ dfs' = dfs /\ okFrames' = okFrames
              /\ pc' \in {"normalize_raw", "return"} /\ exit' = -1
       /\ (pc = "return" /\ collected = <<>>) =>
              /\ dfs' = dfs /\ exit' = -1
       /\ (pc = "normalize_local" /\ Shapeless(jsondata)) =>
              /\ empty(load_json_file(jsondata))
              /\ dfs' = dfs /\ okFrames' = okFrames
              /\ pc' \in {"load_file", "combine"} /\ exit' = -1
      ]_vars

\* C5's case: the payload {} of a listing entry has been normalized and
\* nothing was collected from it.
C5_Witness ==
    /\ pc = "entries"
    /\ jsondata = DictV(<<>>)
    /\ reads = 1
    /\ collected = <<>> /\ dfs = <<>>

\* C6: the fragment of every source read without an error, a file entry of
\* a listing included, is in the combined table, in source order; the run
\* ends for want of data only when no source gave a non-empty fragment.
C6_EverySourceReadIsKept ==
    /\ pc = "preprocess" => df.rows = concat(okFrames).rows
    /\ (pc = "exited" /\ failure = "NoData") => okFrames = <<>>

\* The positions of main before preprocess_df has been applied.
BeforeTransform ==
    {"main", "fetch_url", "dispatch", "entries", "get_entry", "normalize_entry",
     "get_file", "normalize_file", "normalize_raw", "return", "load_file",
     "normalize_local", "combine", "preprocess"}

\* C7: when the combined table lacks a required column, preprocess_df
\* returns no table and the run ends with status 1, the CSV not written and
\* the worksheet neither cleared nor updated.
C7_MissingColumnIsFatal ==
    (/\ pc \notin BeforeTransform
     /\ dfs # <<>>
     /\ \E c \in Required : c \notin Range(ConcatCols(dfs)))
    => /\ preprocess_df(concat(dfs)).error = "KeyError"
       /\ pc = "exited" /\ exit = 1 /\ failure = "KeyError"
       /\ csv.state # "written"
       /\ sheet = [state |-> "old"]

\* C7's case: a run whose combined table lacks is_confirmed has ended, the
\* CSV of an earlier run untouched.
C7_Witness ==
    /\ pc = "exited" /\ failure = "KeyError"
    /\ lacking = "is_confirmed"
    /\ dfs # <<>>
    /\ "is_confirmed" \notin Range(ConcatCols(dfs))
    /\ csv = [state |-> "old"]

\* The positions of the publish phase.
Publishing ==
    {"check_sa", "credentials", "open_sheet", "worksheet", "clear", "update"}

\* The CSV holds the whole transformed table.
CsvComplete ==
    /\ csv.state = "written"
    /\ csv.header = df.cols
    /\ csv.lines = df.rows

\* C8: the CSV of the transformed table is complete before any step of the
\* publish phase; when the credentials are missing or a publish step fails
\* the run ends with a non-zero status and the CSV is still complete.
C8_CsvBeforePublish ==
    /\ pc \in Publishing => CsvComplete
    /\ sheet.state # "old" => CsvComplete
    /\ (pc = "exited" /\ failure \in {"NoCredentials", "PublishFailure"}) =>
          exit = 1 /\ CsvComplete

\* C8's case: the update of a cleared worksheet failed, and the CSV holds
\* the rows of the run.
C8_Witness ==
    /\ pc = "exited" /\ failure = "PublishFailure"
    /\ sheet.state = "cleared"
    /\ csv.state = "written"
    /\ Len(csv.lines) >= 1

\* The row names the URL or the file it came from.
HasProvenance(row) ==
    IF urls # <<>>
    THEN /\ "_source_api" \in DOMAIN row
         /\ row["_source_api"] \in {StrV(urls[k]) : k \in 1..Len(urls)}
    ELSE /\ "_source_file" \in DOMAIN row
         /\ row["_source_file"] \in {StrV(basename(files[k])) : k \in 1..Len(files)}

\* C9: every row of the fragments of the run, of the combined table, of the
\* transformed table and of the published worksheet carries a tag naming
\* its source, never null.
C9_ProvenanceNeverNull ==
    /\ \A k \in 1..Len(dfs) : \A m \in 1..Len(dfs[k].rows) :
          HasProvenance(dfs[k].rows[m])
    /\ \A m \in 1..Len(df.rows) : HasProvenance(df.rows[m])
    /\ csv.state = "written" =>
          \A m \in 1..Len(csv.lines) : HasProvenance(csv.lines[m])
    /\ sheet.state = "updated" =>
          \A m \in 2..Len(sheet.values) : HasProvenance(sheet.values[m])

\* C9's case: the combined table holds a row of a URL that answered with
\* the payload itself and a row of a file of a listing.
C9_Witness ==
    /\ pc = "preprocess"
    /\ "_source_file" \in Range(df.cols)
    /\ \E m \in 1..Len(df.rows) : df.rows[m]["_source_file"] = Null
    /\ \E m \in 1..Len(df.rows) : df.rows[m]["_source_file"] = StrV("data/a.json")

=============================================================================
